---- MODULE Spec2Model ----
(***************************************************************************)
(* Report-to-chart pipeline of api_service.py and smart_chart_generator.py *)
(*                                                                         *)
(* Strings are sequences of one-character strings.  Characters outside     *)
(* ASCII are written by name ("e~" for U+1EBD, "E~" for U+1EBC, ...), and  *)
(* so is the backquote ("BQ").                                             *)
(* A language-model completion is a pair: its text, in which the single    *)
(* character "D" stands for a serialized JSON document, and the value that *)
(* document parses to.                                                     *)
(*                                                                         *)
(* Spec is POST /api/pipeline/full as the service is written.              *)
(* SpecGenerator is the chart phase of such a request with the two methods *)
(* of SmartChartGenerator that talk to the language model replaced by      *)
(* doubles, which return any JSON value or raise: it covers the code of    *)
(* integrate_smart_chart_to_api and generate_multiple_charts that runs     *)
(* after those methods return.                                             *)
(* SpecRender is POST /api/chart/render-all.                               *)
(* SpecChart is a process that serves POST /api/chart/create and POST      *)
(* /api/chart/render requests one after the other.                         *)
(* SpecFence is the markdown-fence handling applied to one completion.     *)
(***************************************************************************)
EXTENDS Integers, Sequences, FiniteSets, TLC

(***************************************************************************)
(* Bounds of the model                                                     *)
(***************************************************************************)
MaxRecs == 4
MaxImages == 1
MaxConfigs == 3
MaxPieces == 3

(***************************************************************************)
(* Program constants                                                       *)
(***************************************************************************)
NumCharts == 3
TagLen == 4

(***************************************************************************)
(* str methods                                                             *)
(***************************************************************************)
Whitespace == {" ", "\n"}

RECURSIVE LStrip(_)
LStrip(s) ==
    IF s # <<>> /\ Head(s) \in Whitespace THEN LStrip(Tail(s)) ELSE s

RECURSIVE RStrip(_)
RStrip(s) ==
    IF s # <<>> /\ s[Len(s)] \in Whitespace
    THEN RStrip(SubSeq(s, 1, Len(s) - 1))
    ELSE s

Strip(s) == RStrip(LStrip(s))

StartsWith(s, p) == Len(s) >= Len(p) /\ SubSeq(s, 1, Len(p)) = p

\* the positions at which p occurs in s
Occurrences(s, p) ==
    {k \in 1..(Len(s) - Len(p) + 1) : SubSeq(s, k, k + Len(p) - 1) = p}

Contains(s, p) == Occurrences(s, p) # {}

Min(S) == CHOOSE m \in S : \A n \in S : m <= n

\* s.split(sep)[1] for an s that starts with sep: the text between the first
\* and the second occurrence of sep, or everything after the first when there
\* is no second one
SplitSecond(s, sep) ==
    LET rest == SubSeq(s, Len(sep) + 1, Len(s))
        occ == Occurrences(rest, sep)
    IN  IF occ = {} THEN rest ELSE SubSeq(rest, 1, Min(occ) - 1)

LowerChar(c) ==
    CASE c = "A" -> "a" [] c = "C" -> "c" [] c = "G" -> "g" [] c = "H" -> "h"
      [] c = "P" -> "p" [] c = "R" -> "r" [] c = "T" -> "t" [] c = "V" -> "v"
      [] c = "E~" -> "e~" [] c = "E^" -> "e^" [] c = "DD" -> "dd"
      [] c = "O^" -> "o^"
      [] OTHER -> c

Lower(s) == [k \in 1..Len(s) |-> LowerChar(s[k])]

(***************************************************************************)
(* The markdown-fence handling before json.loads                            *)
(***************************************************************************)
\* "BQ" is the backquote character
Fence == <<"BQ", "BQ", "BQ">>
JsonTag == <<"j", "s", "o", "n">>

\* StripFence with the json tag dropped from unfenced text as well
StripFenceAnyTag(content) ==
    LET result == Strip(content)
        inner == IF StartsWith(result, Fence)
                 THEN SplitSecond(result, Fence)
                 ELSE result
    IN  Strip(IF StartsWith(inner, JsonTag)
              THEN SubSeq(inner, TagLen + 1, Len(inner))
              ELSE inner)

\* result.split(fence)[1] raises IndexError: the split gave one part, which
\* is when the fence does not occur in result
FenceRaises(content) ==
    LET result == Strip(content)
    IN  StartsWith(result, Fence) /\ ~Contains(result, Fence)

\* StripFence with the json tag left in place
StripFenceKeepTag(content) ==
    LET result == Strip(content)
    IN  Strip(IF StartsWith(result, Fence)
              THEN SplitSecond(result, Fence)
              ELSE result)

StripFence(content) ==
    LET result == Strip(content)
        inner == SplitSecond(result, Fence)
        untagged == IF StartsWith(inner, JsonTag)
                    THEN SubSeq(inner, TagLen + 1, Len(inner))
                    ELSE inner
    IN  Strip(IF StartsWith(result, Fence) THEN untagged ELSE result)

\* json.loads: the text parses exactly when it is one serialized document
JsonParses(text) == text = <<"D">>

(***************************************************************************)
(* JSON values                                                             *)
(*                                                                         *)
(* A JSON object is a record whose domain is the object's keys ({} is the  *)
(* empty record <<>>); a document that is not an object is JsonList.       *)
(***************************************************************************)
EmptyDict == <<>>
JsonList == [json_list |-> <<>>]
None == [py_none |-> TRUE]

IsDict(v) == v # JsonList /\ v # None

\* d.get(key, default)
Get(d, key, default) == IF key \in DOMAIN d THEN d[key] ELSE default

\* d[key] = value
Put(d, key, value) ==
    [k \in DOMAIN d \cup {key} |-> IF k = key THEN value ELSE d[k]]

Without(d, missing) == [k \in DOMAIN d \ missing |-> d[k]]

\* bool(v) of a dict or None
Truthy(v) == v # <<>> /\ v # None

Digit(n) == <<"0", "1", "2", "3", "4", "5", "6", "7", "8", "9">>[n + 1]

\* recommended_charts item of priority p in a model response
Rec(p) ==
    [title |-> <<"T", Digit(p)>>,
     type |-> <<"b", "a", "r">>,
     data_source |-> <<"r">>,
     priority |-> p,
     description |-> <<"W", Digit(p)>>]

Injective(f) == \A a, b \in DOMAIN f : a # b => f[a] # f[b]

PrioritySeqs ==
    {s \in UNION {[1..n -> 1..MaxRecs] : n \in 0..MaxRecs} : Injective(s)}

MissingChoices == {{"title"}, {"type"}, {"priority", "description"}}

\* the recommendation lists a response may carry: complete records with
\* distinct priorities in any order, or priorities 1..n in order with one
\* record that lacks fields
RecLists ==
    {[k \in DOMAIN s |-> Rec(s[k])] : s \in PrioritySeqs}
    \cup {[k \in 1..t[1] |->
             IF k = t[2] THEN Without(Rec(k), t[3]) ELSE Rec(k)] :
            t \in {u \in (1..MaxRecs) \X (1..MaxRecs) \X MissingChoices :
                     u[2] <= u[1]}}

Dataset == [revenue |-> <<100, 120>>]

ExtractionDocs ==
    {JsonList, EmptyDict}
    \cup {[extracted_data |-> d, recommended_charts |-> r] :
            d \in {EmptyDict, Dataset}, r \in RecLists}

Quarters == <<"Q1", "Q2">>

ConfigDocs ==
    {[chart_type |-> "bar", title |-> <<"C">>,
      data |-> [x |-> Quarters, y |-> <<100, 120>>]],
     [chart_type |-> "radar", title |-> <<"C">>,
      data |-> [x |-> Quarters, y |-> <<100, 120>>]],
     [chart_type |-> "pie", data |-> [labels |-> Quarters]],
     JsonList}

(***************************************************************************)
(* The language-model service: a call raises, or returns a completion and  *)
(* the tokens it used                                                      *)
(***************************************************************************)
\* usage.total_tokens of a returned completion
TokenUsages == {1}

Fenced(text) == Fence \o JsonTag \o <<"\n">> \o text \o <<"\n">> \o Fence

Prose == <<"x">>

Completions(docs) ==
    {[raises |-> FALSE, text |-> t, doc |-> d, tokens |-> n] :
        t \in {<<"D">>, Fenced(<<"D">>)}, d \in docs, n \in TokenUsages}
    \cup {[raises |-> FALSE, text |-> Prose, doc |-> None, tokens |-> n] :
            n \in TokenUsages}
    \cup {[raises |-> TRUE, text |-> <<>>, doc |-> None, tokens |-> 0]}

\* how a method call ended, and the tokens of the completion it received
Returned(value, tokens) ==
    [ok |-> TRUE, value |-> value, error |-> "", tokens |-> tokens]
Raised(e, tokens) ==
    [ok |-> FALSE, value |-> None, error |-> e, tokens |-> tokens]

(***************************************************************************)
(* SmartChartGenerator                                                     *)
(*                                                                         *)
(* A prompt template is the sequence of its replacement fields, in the     *)
(* order str.format meets them.  The JSON example of each template is      *)
(* written with single braces, so str.format reads the whole example as    *)
(* one replacement field, named by the text between the opening brace and  *)
(* the first colon.                                                        *)
(***************************************************************************)
ExtractionExampleField == "\n    \"extracted_data\""
ConfigExampleField == "\n    \"chart_type\""

EXTRACTION_PROMPT == <<ExtractionExampleField, "report_content">>

CHART_GENERATION_PROMPT ==
    <<"extracted_data", "chart_request", ConfigExampleField>>

\* template.format(**kwargs): KeyError for the first field that is not a
\* keyword of the call
Format(template, kwargs) ==
    LET missing == {k \in DOMAIN template : template[k] \notin kwargs}
    IN  IF missing = {} THEN [ok |-> TRUE, error |-> ""]
        ELSE [ok |-> FALSE, error |-> template[Min(missing)]]

\* the chat completion request, the fence handling and json.loads
ParseCompletion(response, message) ==
    IF response.raises THEN Raised("APIError", 0)
    ELSE IF JsonParses(StripFence(response.text))
         THEN Returned(response.doc, response.tokens)
         ELSE Raised(message, response.tokens)

extract_financial_data(response) ==
    LET prompt == Format(EXTRACTION_PROMPT, {"report_content"})
    IN  IF ~prompt.ok THEN Raised(prompt.error, 0)
        ELSE ParseCompletion(response,
                             "ValueError: AI khong tra ve JSON hop le")

generate_chart_config(response) ==
    LET prompt == Format(CHART_GENERATION_PROMPT,
                         {"extracted_data", "chart_request"})
    IN  IF ~prompt.ok THEN Raised(prompt.error, 0)
        ELSE ParseCompletion(response,
                             "ValueError: Khong the parse cau hinh bieu do")

\* what a double of extract_financial_data gives its caller
ExtractionResults ==
    {Raised("Exception", 0)} \cup {Returned(d, 0) : d \in ExtractionDocs}

\* what a double of generate_chart_config gives its caller
ConfigResults ==
    {Raised("Exception", 0)} \cup {Returned(d, 0) : d \in ConfigDocs}

\* how an extraction call ended for its caller: it raised, the value was no
\* mapping, its extracted_data was empty or absent, or it held data
ExtractionOutcome(r) ==
    [outcome |->
         IF ~r.ok THEN "raised"
         ELSE IF ~IsDict(r.value) THEN "not_dict"
         ELSE IF ~Truthy(Get(r.value, "extracted_data", EmptyDict))
         THEN "no_data"
         ELSE "data",
     extracted_data |->
         IF r.ok /\ IsDict(r.value)
         THEN Get(r.value, "extracted_data", EmptyDict)
         ELSE None]

\* f"Tao {chart_rec['type']} chart: {chart_rec['title']}"
RecRequest(chart_rec) ==
    <<"T", "a", "o", " ">> \o chart_rec.type
        \o <<" ", "c", "h", "a", "r", "t", ":", " ">> \o chart_rec.title

(***************************************************************************)
(* create_chart                                                            *)
(*                                                                         *)
(* The matplotlib calls are modelled by the conditions under which they    *)
(* raise: plot and fill_between need x and y of one length, bar broadcasts *)
(* a length-1 operand, pie needs labels and explode as long as the values, *)
(* scatter needs x and y of one size and as many sizes, or one size, and   *)
(* imshow a rectangular matrix with at least one row.                      *)
(* The style "seaborn", which render_all_charts passes, is taken to be     *)
(* installed.                                                              *)
(***************************************************************************)
\* Broadcast with operands of one length only
NoBroadcast(m, n) == m = n

\* np.broadcast_arrays over sequences of lengths m and n does not raise
Broadcast(m, n) == m = n \/ m = 1 \/ n = 1

\* Rectangular with imshow taking any nested list
AnyShape(matrix) == TRUE

\* np.asarray(matrix) is a two-dimensional array of numbers
Rectangular(matrix) == \A a, b \in DOMAIN matrix : Len(matrix[a]) = Len(matrix[b])

\* DefaultExplode with no wedge offset
NoExplode(n) == [k \in 1..n |-> 0]

\* [0.05] * n, in hundredths
DefaultExplode(n) == [k \in 1..n |-> 5]

\* [100] * n
DefaultSizes(n) == [k \in 1..n |-> 100]

\* Unsupported with an empty chart drawn instead
UnsupportedDrawn(chart_type) == [ok |-> TRUE, marks |-> 0, explode |-> <<>>]

\* else: raise ValueError(f"Loai bieu do khong ho tro: {chart_type}")
Unsupported(chart_type) == [ok |-> FALSE, marks |-> 0, explode |-> <<>>]

\* the body of the try block: what is drawn, or the exception
Draw(data, chart_type) ==
    CASE chart_type = "line" ->
            LET x == Get(data, "x", <<>>)
                y == Get(data, "y", <<>>)
            IN  IF Len(x) = Len(y)
                THEN [ok |-> TRUE, marks |-> Len(x), explode |-> <<>>]
                ELSE [ok |-> FALSE, marks |-> 0, explode |-> <<>>]
      [] chart_type = "bar" ->
            LET x == Get(data, "x", <<>>)
                y == Get(data, "y", <<>>)
            IN  IF Broadcast(Len(x), Len(y))
                THEN [ok |-> TRUE, marks |-> Len(x), explode |-> <<>>]
                ELSE [ok |-> FALSE, marks |-> 0, explode |-> <<>>]
      [] chart_type = "pie" ->
            LET labels == Get(data, "labels", <<>>)
                values == Get(data, "values", <<>>)
                explode == Get(data, "explode", DefaultExplode(Len(labels)))
            IN  IF Len(labels) = Len(values) /\ Len(explode) = Len(values)
                THEN [ok |-> TRUE, marks |-> Len(values), explode |-> explode]
                ELSE [ok |-> FALSE, marks |-> 0, explode |-> <<>>]
      [] chart_type = "scatter" ->
            LET x == Get(data, "x", <<>>)
                y == Get(data, "y", <<>>)
                sizes == Get(data, "sizes", DefaultSizes(Len(x)))
            IN  IF Len(x) = Len(y) /\ Len(sizes) \in {1, Len(x)}
                THEN [ok |-> TRUE, marks |-> Len(x), explode |-> <<>>]
                ELSE [ok |-> FALSE, marks |-> 0, explode |-> <<>>]
      [] chart_type = "heatmap" ->
            LET matrix == Get(data, "matrix", << <<>> >>)
            IN  IF /\ matrix # <<>>
                   /\ Rectangular(matrix)
                   /\ \A r \in DOMAIN matrix : Len(matrix[r]) >= Len(matrix[1])
                THEN [ok |-> TRUE, marks |-> Len(matrix) * Len(matrix[1]),
                      explode |-> <<>>]
                ELSE [ok |-> FALSE, marks |-> 0, explode |-> <<>>]
      [] chart_type = "area" ->
            LET x == Get(data, "x", <<>>)
                y == Get(data, "y", <<>>)
            IN  IF Len(x) = Len(y)
                THEN [ok |-> TRUE, marks |-> Len(x), explode |-> <<>>]
                ELSE [ok |-> FALSE, marks |-> 0, explode |-> <<>>]
      [] OTHER -> Unsupported(chart_type)

NoImage == [png |-> FALSE]

(***************************************************************************)
(* pyplot's state: rcParams, which plt.style.use updates in place and      *)
(* every later figure of the process reads.  Three settings stand for all  *)
(* of them: one that every style sheet sets, one that only some set, and   *)
(* the one create_chart assigns itself.                                    *)
(***************************************************************************)
DefaultRcParams ==
    ("axes.facecolor" :> "white") @@ ("axes.linewidth" :> "0.8")
        @@ ("font.family" :> "sans-serif")

\* the style sheets named by ChartRequest.style, as the settings each holds
StyleLibrary ==
    ("seaborn" :> (("axes.facecolor" :> "EAEAF2") @@ ("axes.linewidth" :> "0")
                       @@ ("font.family" :> "sans-serif")))
    @@ ("ggplot" :> (("axes.facecolor" :> "E5E5E5") @@ ("axes.linewidth" :> "1")))
    @@ ("bmh" :> ("axes.facecolor" :> "eeeeee"))

\* rcParams.update(settings)
Update(rc, settings) ==
    [k \in DOMAIN rc |-> IF k \in DOMAIN settings THEN settings[k] ELSE rc[k]]

\* plt.style.use(style): "default" restores the defaults, a style sheet
\* updates the settings it holds and leaves the others as they are, any
\* other name raises OSError
StyleUse(rc, style) ==
    IF style = "default" THEN [ok |-> TRUE, rcParams |-> DefaultRcParams]
    ELSE IF style \in DOMAIN StyleLibrary
    THEN [ok |-> TRUE, rcParams |-> Update(rc, StyleLibrary[style])]
    ELSE [ok |-> FALSE, rcParams |-> rc]

\* the PNG written to the buffer; a label that is None or "" is not set
Png(chart_type, title, xlabel, ylabel, drawn, rc) ==
    [png |-> TRUE, chart_type |-> chart_type, title |-> title,
     xlabel |-> xlabel, ylabel |-> ylabel,
     marks |-> drawn.marks, explode |-> drawn.explode, rcParams |-> rc]

\* create_chart without the plt.close(fig) of its except clause
create_chart_leaking(data, chart_type, title, xlabel, ylabel, style, rc) ==
    LET used == StyleUse(rc, style)
        params == [used.rcParams EXCEPT !["font.family"] = "DejaVu Sans"]
        drawn == Draw(data, chart_type)
    IN  IF ~used.ok
        THEN [ok |-> FALSE, buffer |-> NoImage, exception |-> "OSError",
              status_code |-> 0, opened |-> 0, closed |-> 0, rcParams |-> rc]
        ELSE IF drawn.ok
        THEN [ok |-> TRUE,
              buffer |-> Png(chart_type, title, xlabel, ylabel, drawn, params),
              exception |-> "", status_code |-> 200,
              opened |-> 1, closed |-> 1, rcParams |-> params]
        ELSE [ok |-> FALSE, buffer |-> NoImage, exception |-> "HTTPException",
              status_code |-> 400, opened |-> 1, closed |-> 0,
              rcParams |-> params]

\* returns the buffer, or raises: OSError out of plt.style.use, before any
\* figure exists, or HTTPException(status_code=400) out of the try block,
\* whose except clause closes the figure that plt.subplots opened; rcParams
\* is pyplot's state when the call ends
create_chart(data, chart_type, title, xlabel, ylabel, style, rc) ==
    LET used == StyleUse(rc, style)
        params == [used.rcParams EXCEPT !["font.family"] = "DejaVu Sans"]
        drawn == Draw(data, chart_type)
    IN  IF ~used.ok
        THEN [ok |-> FALSE, buffer |-> NoImage, exception |-> "OSError",
              status_code |-> 0, opened |-> 0, closed |-> 0, rcParams |-> rc]
        ELSE IF drawn.ok
        THEN [ok |-> TRUE,
              buffer |-> Png(chart_type, title, xlabel, ylabel, drawn, params),
              exception |-> "", status_code |-> 200,
              opened |-> 1, closed |-> 1, rcParams |-> params]
        ELSE [ok |-> FALSE, buffer |-> NoImage, exception |-> "HTTPException",
              status_code |-> 400, opened |-> 1, closed |-> 1,
              rcParams |-> params]

(***************************************************************************)
(* State of one POST /api/chart/render-all                                 *)
(***************************************************************************)
VARIABLES
    render_pc,          \* where render_all_charts is
    render_configs,     \* body field chart_configs
    output_format,      \* body field
    rendered,           \* configs the loop has gone through
    zip_members,        \* what zip_file.writestr has written
    results,            \* the list of the individual form
    render_status,      \* HTTP status of the response, 0 while running
    render_body,        \* the response: archive members or JSON
    open_figures,       \* figures pyplot holds open
    rc_params           \* pyplot's rcParams

render_vars ==
    <<render_pc, render_configs, output_format, rendered, zip_members,
      results, render_status, render_body, open_figures, rc_params>>

(***************************************************************************)
(* State of one POST /api/chart/create or POST /api/chart/render           *)
(***************************************************************************)
VARIABLES
    chart_request,      \* the body of the request
    chart_response      \* the response: status and image, or detail

chart_vars == <<chart_request, chart_response>>

(***************************************************************************)
(* State of the markdown-fence handling of one completion                  *)
(***************************************************************************)
VARIABLES
    fence_pc,           \* whether the handling has run
    payload,            \* the text the language model was to return
    ai_response,        \* the completion: the payload, bare or fenced
    json_text           \* what is handed to json.loads

fence_vars == <<fence_pc, payload, ai_response, json_text>>

(***************************************************************************)
(* State of one POST /api/pipeline/full                                    *)
(***************************************************************************)
VARIABLES
    pc,                 \* where full_pipeline is
    text_content,       \* form field; <<>> also stands for None (both falsy)
    pdf_file,           \* the uploaded PDF: whether there is one, its pages
    image_files,        \* the uploaded images
    create_charts,      \* form field
    pdf_text,
    combined_text,
    ocr_done,           \* images processed so far
    total_tokens,
    extracted_data,     \* locals of the chart phase
    recommended_charts,
    chart_configs,
    i,                  \* index of the loop of generate_multiple_charts
    printed_errors,     \* lines "Loi tao bieu do" printed by that loop
    chart_result,       \* what integrate_smart_chart_to_api returned
    charts,             \* results["charts"]
    analysis,           \* results["analysis"]
    statistics,         \* results["statistics"]
    status,             \* HTTP status of the response, 0 while running
    llm_tokens,         \* usage.total_tokens summed over every completion
    extract_calls,      \* calls of extract_financial_data
    extraction,         \* how the extraction call ended, and the data parsed
    synth_calls,        \* arguments of the calls of generate_chart_config
    analysis_calls,     \* calls made by step 4 of full_pipeline
    patched             \* whether the generator's two methods are doubles

pipeline_vars ==
    <<pc, text_content, pdf_file, image_files, create_charts, pdf_text,
      combined_text, ocr_done, total_tokens, extracted_data,
      recommended_charts, chart_configs, i, printed_errors, chart_result,
      charts, analysis, statistics, status, llm_tokens, extract_calls,
      extraction, synth_calls, analysis_calls, patched>>

vars == <<pipeline_vars, render_vars, chart_vars, fence_vars>>

inputs == <<text_content, pdf_file, image_files, create_charts, patched>>

\* the locals of integrate_smart_chart_to_api and generate_multiple_charts
chart_locals ==
    <<extracted_data, recommended_charts, chart_configs, i, printed_errors>>

NoExtraction == [outcome |-> "none", extracted_data |-> None]

NoPdf == [present |-> FALSE, pages |-> <<>>]

PdfFiles ==
    {NoPdf}
    \cup {[present |-> TRUE, pages |-> p] : p \in {<<>>, << <<"r">> >>}}

TextContents ==
    {<<>>,
     <<"s", "u", "m">>,
     <<"C", "H", "A", "R", "T">>,
     <<"V", "E~", " ", "x">>,
     <<"B", "i", "e^", "u", " ", "dd", "o^">>}

ImageLists == {[k \in 1..n |-> "img"] : n \in 0..MaxImages}

\* extract_text_from_pdf
RECURSIVE extract_text_from_pdf(_)
extract_text_from_pdf(pages) ==
    IF pages = <<>> THEN <<>>
    ELSE Head(pages) \o <<"\n", "\n">> \o extract_text_from_pdf(Tail(pages))

PdfHeader == <<"\n", "\n", "=", "P", "D", "F", "=", "\n">>
ImageHeader == <<"\n", "\n", "=", "I", "M", "G", "=", "\n">>

Keywords ==
    {<<"b", "i", "e^", "u", " ", "dd", "o^">>,
     <<"c", "h", "a", "r", "t">>,
     <<"v", "e~">>,
     <<"g", "r", "a", "p", "h">>}

\* user_request and any(keyword in user_request.lower() for keyword in [...])
ChartIntent(user_request) ==
    user_request # <<>>
    /\ \E keyword \in Keywords : Contains(Lower(user_request), keyword)

RenderIdle ==
    /\ render_pc = "idle"
    /\ render_configs = <<>>
    /\ output_format = "zip"
    /\ rendered = 0
    /\ zip_members = <<>>
    /\ results = <<>>
    /\ render_status = 0
    /\ render_body = EmptyDict
    /\ open_figures = 0
    /\ rc_params = DefaultRcParams

ChartIdle ==
    /\ chart_request = EmptyDict
    /\ chart_response = EmptyDict

FenceIdle ==
    /\ fence_pc = "idle"
    /\ payload = <<>>
    /\ ai_response = <<>>
    /\ json_text = <<>>

\* nothing of the request has run
NothingRun ==
    /\ ocr_done = 0
    /\ total_tokens = 0
    /\ extracted_data = EmptyDict
    /\ recommended_charts = <<>>
    /\ chart_configs = <<>>
    /\ i = 0
    /\ printed_errors = 0
    /\ chart_result = EmptyDict
    /\ charts = EmptyDict
    /\ analysis = EmptyDict
    /\ statistics = EmptyDict
    /\ status = 0
    /\ llm_tokens = 0
    /\ extract_calls = 0
    /\ extraction = NoExtraction
    /\ synth_calls = <<>>
    /\ analysis_calls = 0

Init ==
    /\ RenderIdle
    /\ ChartIdle
    /\ FenceIdle
    /\ NothingRun
    /\ patched = FALSE
    /\ pc = "pdf"
    /\ text_content \in TextContents
    /\ pdf_file \in PdfFiles
    /\ image_files \in ImageLists
    /\ create_charts \in BOOLEAN
    /\ pdf_text = <<>>
    /\ combined_text = text_content

(***************************************************************************)
(* full_pipeline, steps 1 and 2                                            *)
(***************************************************************************)
\* except Exception as e: raise HTTPException(status_code=500, ...)
Respond500 ==
    /\ pc' = "done"
    /\ status' = 500

ProcessPdf ==
    /\ pc = "pdf"
    /\ pc' = "ocr"
    /\ pdf_text' = IF pdf_file.present
                   THEN extract_text_from_pdf(pdf_file.pages)
                   ELSE <<>>
    /\ combined_text' = IF pdf_file.present
                        THEN combined_text \o PdfHeader \o pdf_text'
                        ELSE combined_text
    /\ UNCHANGED <<inputs, ocr_done, total_tokens, chart_locals, chart_result,
                   charts, analysis, statistics, status, llm_tokens,
                   extract_calls, extraction, synth_calls, analysis_calls,
                   render_vars, chart_vars, fence_vars>>

\* a chat completion that is not parsed: it raises or returns text and usage
PlainCompletions ==
    {[raises |-> FALSE, text |-> <<"o">>, tokens |-> n] : n \in TokenUsages}
    \cup {[raises |-> TRUE, text |-> <<>>, tokens |-> 0]}

OcrImage ==
    /\ pc = "ocr"
    /\ ocr_done < Len(image_files)
    /\ \E response \in PlainCompletions :
        IF response.raises
        THEN /\ Respond500
             /\ UNCHANGED <<combined_text, ocr_done, total_tokens, llm_tokens>>
        ELSE /\ total_tokens' = total_tokens + response.tokens
             /\ llm_tokens' = llm_tokens + response.tokens
             /\ combined_text' = combined_text \o ImageHeader \o response.text
             /\ ocr_done' = ocr_done + 1
             /\ UNCHANGED <<pc, status>>
    /\ UNCHANGED <<inputs, pdf_text, chart_locals, chart_result, charts,
                   analysis, statistics, extract_calls, extraction,
                   synth_calls, analysis_calls, render_vars, chart_vars, fence_vars>>

(***************************************************************************)
(* full_pipeline, step 3: integrate_smart_chart_to_api                     *)
(***************************************************************************)
\* what generator.extract_financial_data(...) gives its caller
ExtractCalls ==
    IF patched THEN ExtractionResults
    ELSE {extract_financial_data(response) :
            response \in Completions(ExtractionDocs)}

\* what generator.generate_chart_config(...) gives its caller
ConfigCalls ==
    IF patched THEN ConfigResults
    ELSE {generate_chart_config(response) :
            response \in Completions(ConfigDocs)}

\* a call of generate_chart_config: its arguments and what it returned
\* (None when it raised)
SynthCall(data, request, r) ==
    [extracted_data |-> data, chart_request |-> request,
     config |-> IF r.ok THEN r.value ELSE None]

\* ErrorResult with the configs made so far handed back
ErrorResultWithConfigs(e) ==
    [error |-> e, extracted_data |-> None, chart_configs |-> chart_configs]

\* except Exception as e: return {"error": str(e), ...}
ErrorResult(e) == [error |-> e, extracted_data |-> None, chart_configs |-> <<>>]

\* ChartsSection with the number of charts asked for as the count
ChartsSectionCountingRequested(result) ==
    IF Get(result, "chart_configs", <<>>) # <<>>
    THEN [available |-> TRUE,
          count |-> NumCharts,
          configs |-> result.chart_configs]
    ELSE [available |-> FALSE,
          message |-> "Khong the trich xuat du lieu bieu do tu bao cao"]

\* what full_pipeline puts in results["charts"] for a chart_result
ChartsSection(result) ==
    IF Get(result, "chart_configs", <<>>) # <<>>
    THEN LET base == [available |-> TRUE,
                      count |-> Len(result.chart_configs),
                      configs |-> result.chart_configs]
             with_data == IF Truthy(Get(result, "extracted_data", None))
                          THEN Put(base, "extracted_data", result.extracted_data)
                          ELSE base
         IN  IF Get(result, "recommended_charts", <<>>) # <<>>
             THEN Put(with_data, "recommendations", result.recommended_charts)
             ELSE with_data
    ELSE [available |-> FALSE,
          message |-> "Khong the trich xuat du lieu bieu do tu bao cao"]

\* ChartPhaseReturns with an error result ending the request
ChartPhaseFatal(result) ==
    /\ chart_result' = result
    /\ charts' = ChartsSection(result)
    /\ pc' = IF "error" \in DOMAIN result THEN "done" ELSE "analysis"
    /\ extracted_data' = EmptyDict
    /\ recommended_charts' = <<>>
    /\ chart_configs' = <<>>
    /\ i' = 0

\* integrate_smart_chart_to_api returns; its frame and the generator's go
ChartPhaseReturns(result) ==
    /\ chart_result' = result
    /\ charts' = ChartsSection(result)
    /\ pc' = "analysis"
    /\ extracted_data' = EmptyDict
    /\ recommended_charts' = <<>>
    /\ chart_configs' = <<>>
    /\ i' = 0

ChartPhaseRuns ==
    /\ pc = "ocr"
    /\ ocr_done = Len(image_files)
    /\ create_charts
    /\ pdf_text # <<>>

SkipCharts ==
    /\ pc = "ocr"
    /\ ocr_done = Len(image_files)
    /\ ~(create_charts /\ pdf_text # <<>>)
    /\ pc' = "analysis"
    /\ UNCHANGED <<inputs, pdf_text, combined_text, ocr_done, total_tokens,
                   chart_locals, chart_result, charts, analysis, statistics,
                   status, llm_tokens, extract_calls, extraction,
                   synth_calls, analysis_calls, render_vars, chart_vars, fence_vars>>

\* the branch of a chart request: extraction
ExtractForRequest ==
    /\ ChartPhaseRuns
    /\ ChartIntent(text_content)
    /\ \E r \in ExtractCalls :
            /\ extract_calls' = extract_calls + 1
            /\ extraction' = ExtractionOutcome(r)
            /\ llm_tokens' = llm_tokens + r.tokens
            /\ IF ~r.ok
               THEN ChartPhaseReturns(ErrorResult(r.error))
               ELSE IF ~IsDict(r.value)
               THEN ChartPhaseReturns(ErrorResult("AttributeError: get"))
               ELSE /\ extracted_data' = Get(r.value, "extracted_data", EmptyDict)
                    /\ recommended_charts' =
                           Get(r.value, "recommended_charts", <<>>)
                    /\ pc' = "request_chart"
                    /\ UNCHANGED <<chart_configs, i, chart_result, charts>>
    /\ UNCHANGED <<inputs, pdf_text, combined_text, ocr_done, total_tokens,
                   printed_errors, analysis, statistics, status, synth_calls,
                   analysis_calls, render_vars, chart_vars, fence_vars>>

\* the branch of a chart request: one chart for the request
ChartForRequest ==
    /\ pc = "request_chart"
    /\ \E r \in ConfigCalls :
            /\ synth_calls' = Append(synth_calls,
                                     SynthCall(extracted_data, text_content, r))
            /\ llm_tokens' = llm_tokens + r.tokens
            /\ IF r.ok
               THEN ChartPhaseReturns(
                        [extracted_data |-> extracted_data,
                         chart_configs |-> <<r.value>>,
                         recommended_charts |-> recommended_charts])
               ELSE ChartPhaseReturns(ErrorResult(r.error))
    /\ UNCHANGED <<inputs, pdf_text, combined_text, ocr_done, total_tokens,
                   printed_errors, analysis, statistics, status, extract_calls,
                   extraction, analysis_calls, render_vars, chart_vars, fence_vars>>

\* generate_multiple_charts up to its loop
ExtractForRecommendations ==
    /\ ChartPhaseRuns
    /\ ~ChartIntent(text_content)
    /\ \E r \in ExtractCalls :
        LET data == Get(r.value, "extracted_data", EmptyDict)
        IN  /\ extract_calls' = extract_calls + 1
            /\ extraction' = ExtractionOutcome(r)
            /\ llm_tokens' = llm_tokens + r.tokens
            /\ IF ~r.ok
               THEN ChartPhaseReturns(ErrorResult(r.error))
               ELSE IF ~IsDict(r.value)
               THEN ChartPhaseReturns(ErrorResult("AttributeError: get"))
               ELSE IF ~Truthy(data)
               THEN ChartPhaseReturns(ErrorResult(
                        "ValueError: Khong the trich xuat du lieu tu bao cao"))
               ELSE /\ extracted_data' = data
                    /\ recommended_charts' =
                           Get(r.value, "recommended_charts", <<>>)
                    /\ chart_configs' = <<>>
                    /\ i' = 0
                    /\ pc' = "rec_loop"
                    /\ UNCHANGED <<chart_result, charts>>
    /\ UNCHANGED <<inputs, pdf_text, combined_text, ocr_done, total_tokens,
                   printed_errors, analysis, statistics, status, synth_calls,
                   analysis_calls, render_vars, chart_vars, fence_vars>>

\* FirstRecs without the slice
AllRecs(recs, num_charts) == recs

\* recommended_charts[:num_charts]
FirstRecs(recs, num_charts) ==
    SubSeq(recs, 1, IF Len(recs) < num_charts THEN Len(recs) ELSE num_charts)

\* Annotated with the position in the list as the priority
AnnotatedByPosition(chart_config, chart_rec, index) ==
    Put(Put(chart_config, "priority", index + 1),
        "description", Get(chart_rec, "description", <<>>))

\* chart_config["priority"] = ...; chart_config["description"] = ...
Annotated(chart_config, chart_rec, index) ==
    Put(Put(chart_config, "priority", Get(chart_rec, "priority", index + 1)),
        "description", Get(chart_rec, "description", <<>>))

\* Appended with the new config put first
Prepended(configs, chart_config) == <<chart_config>> \o configs

\* chart_configs.append(chart_config)
Appended(configs, chart_config) == Append(configs, chart_config)

\* CatchAndContinue with the exception leaving the loop
CatchAndReraise ==
    /\ ChartPhaseReturns(ErrorResult("Exception"))
    /\ UNCHANGED printed_errors

\* except Exception as e: print(...); continue
CatchAndContinue ==
    /\ printed_errors' = printed_errors + 1
    /\ i' = i + 1
    /\ UNCHANGED <<pc, extracted_data, recommended_charts, chart_configs,
                   chart_result, charts>>

\* one turn of the loop of generate_multiple_charts
ChartForRecommendation ==
    /\ pc = "rec_loop"
    /\ i < Len(FirstRecs(recommended_charts, NumCharts))
    /\ LET chart_rec == recommended_charts[i + 1]
       IN  IF "title" \notin DOMAIN chart_rec
           THEN \* the print before the try raises KeyError
                /\ ChartPhaseReturns(ErrorResult("KeyError: title"))
                /\ UNCHANGED <<printed_errors, synth_calls, llm_tokens>>
           ELSE IF "type" \notin DOMAIN chart_rec
           THEN \* KeyError inside the try
                /\ CatchAndContinue
                /\ UNCHANGED <<synth_calls, llm_tokens>>
           ELSE \E r \in ConfigCalls :
                LET chart_config == Annotated(r.value, chart_rec, i)
                IN  /\ synth_calls' =
                           Append(synth_calls,
                                  SynthCall(extracted_data,
                                            RecRequest(chart_rec), r))
                    /\ llm_tokens' = llm_tokens + r.tokens
                    /\ IF r.ok /\ IsDict(r.value)
                       THEN /\ chart_configs' = Appended(chart_configs, chart_config)
                            /\ i' = i + 1
                            \* print(chart_config['title']) raises KeyError
                            \* after the append
                            /\ printed_errors' =
                                   IF "title" \in DOMAIN chart_config
                                   THEN printed_errors
                                   ELSE printed_errors + 1
                            /\ UNCHANGED <<pc, extracted_data,
                                           recommended_charts, chart_result,
                                           charts>>
                       ELSE CatchAndContinue
    /\ UNCHANGED <<inputs, pdf_text, combined_text, ocr_done, total_tokens,
                   analysis, statistics, status, extract_calls, extraction,
                   analysis_calls, render_vars, chart_vars, fence_vars>>

\* return chart_configs, and integrate's return {"chart_configs": ...}
ReturnChartConfigs ==
    /\ pc = "rec_loop"
    /\ i = Len(FirstRecs(recommended_charts, NumCharts))
    /\ ChartPhaseReturns([chart_configs |-> chart_configs])
    /\ UNCHANGED <<inputs, pdf_text, combined_text, ocr_done, total_tokens,
                   printed_errors, analysis, statistics, status, llm_tokens,
                   extract_calls, extraction, synth_calls, analysis_calls,
                   render_vars, chart_vars, fence_vars>>

(***************************************************************************)
(* full_pipeline, steps 4 and 5                                            *)
(***************************************************************************)
Statistics(tokens) ==
    [total_tokens_used |-> tokens,
     pdf_processed |-> pdf_file.present,
     images_processed |-> Len(image_files),
     charts_created |-> IF create_charts THEN Get(charts, "count", 0) ELSE 0]

AnalysisRuns == Strip(combined_text) # <<>>

Analyze ==
    /\ pc = "analysis"
    /\ AnalysisRuns
    /\ analysis_calls' = analysis_calls + 1
    /\ \E response \in PlainCompletions :
        IF response.raises
        THEN /\ Respond500
             /\ UNCHANGED <<total_tokens, llm_tokens, analysis, statistics>>
        ELSE /\ total_tokens' = total_tokens + response.tokens
             /\ llm_tokens' = llm_tokens + response.tokens
             /\ analysis' = [output_format |-> "detailed",
                             result |-> response.text]
             /\ statistics' = Statistics(total_tokens')
             /\ status' = 200
             /\ pc' = "done"
    /\ UNCHANGED <<inputs, pdf_text, combined_text, ocr_done, chart_locals,
                   chart_result, charts, extract_calls, extraction,
                   synth_calls, render_vars, chart_vars, fence_vars>>

RespondWithoutAnalysis ==
    /\ pc = "analysis"
    /\ ~AnalysisRuns
    /\ statistics' = Statistics(total_tokens)
    /\ status' = 200
    /\ pc' = "done"
    /\ UNCHANGED <<inputs, pdf_text, combined_text, ocr_done, total_tokens,
                   chart_locals, chart_result, charts, analysis, llm_tokens,
                   extract_calls, extraction, synth_calls, analysis_calls,
                   render_vars, chart_vars, fence_vars>>

(***************************************************************************)
(* render_all_charts                                                       *)
(***************************************************************************)
PipelineIdle ==
    /\ pc = "idle"
    /\ text_content = <<>>
    /\ pdf_file = NoPdf
    /\ image_files = <<>>
    /\ create_charts = FALSE
    /\ pdf_text = <<>>
    /\ combined_text = <<>>
    /\ ocr_done = 0
    /\ total_tokens = 0
    /\ extracted_data = EmptyDict
    /\ recommended_charts = <<>>
    /\ chart_configs = <<>>
    /\ i = 0
    /\ printed_errors = 0
    /\ chart_result = EmptyDict
    /\ charts = EmptyDict
    /\ analysis = EmptyDict
    /\ statistics = EmptyDict
    /\ status = 0
    /\ llm_tokens = 0
    /\ extract_calls = 0
    /\ extraction = NoExtraction
    /\ synth_calls = <<>>
    /\ analysis_calls = 0
    /\ patched = FALSE

\* the chart configs a request body may hold
RenderConfigs ==
    {[chart_type |-> "bar", title |-> <<"A", " ", "B">>,
      data |-> [x |-> Quarters, y |-> <<100, 120>>]],
     [chart_type |-> "pie", title |-> <<"P">>,
      data |-> [labels |-> Quarters, values |-> <<60, 40>>]],
     [chart_type |-> "heatmap", title |-> <<"H">>,
      data |-> [matrix |-> << <<1, 2>>, <<3, 4>> >>]],
     [chart_type |-> "heatmap", title |-> <<"R">>,
      data |-> [matrix |-> << <<1, 2, 3>>, <<4, 5>> >>]],
     [chart_type |-> "line", title |-> <<"L">>,
      data |-> [x |-> Quarters, y |-> <<100>>]],
     [chart_type |-> "radar", title |-> <<"X">>,
      data |-> [x |-> Quarters, y |-> <<100, 120>>]],
     [chart_type |-> "bar", data |-> [x |-> Quarters, y |-> <<100, 120>>]]}

ConfigLists == UNION {[1..n -> RenderConfigs] : n \in 0..MaxConfigs}

InitRender ==
    /\ PipelineIdle
    /\ ChartIdle
    /\ FenceIdle
    /\ render_pc = "loop"
    /\ render_configs \in ConfigLists
    /\ output_format \in {"zip", "individual"}
    /\ rendered = 0
    /\ zip_members = <<>>
    /\ results = <<>>
    /\ render_status = 0
    /\ render_body = EmptyDict
    /\ open_figures = 0
    /\ rc_params = DefaultRcParams

\* ReplaceSpaces with the title kept as it is
KeepSpaces(title) == title

\* title.replace(' ', '_')
ReplaceSpaces(title) ==
    [k \in 1..Len(title) |-> IF title[k] = " " THEN "_" ELSE title[k]]

\* f"{i}_{config['title'].replace(' ', '_')}.png"
MemberName(index, title) ==
    <<Digit(index), "_">> \o ReplaceSpaces(title) \o <<".", "p", "n", "g">>

\* base64.b64encode(...).decode('utf-8')
Base64(buffer) == [base64 |-> buffer]

\* config["data"], config["chart_type"], config["title"] do not raise KeyError
HasRenderKeys(config) == {"data", "chart_type", "title"} \subseteq DOMAIN config

\* the create_chart call of either loop; a config that lacks a key never
\* reaches it
RenderOne(config) ==
    IF HasRenderKeys(config)
    THEN create_chart(config.data, config.chart_type, config.title,
                      Get(config, "xlabel", <<>>), Get(config, "ylabel", <<>>),
                      "seaborn", rc_params)
    ELSE [ok |-> FALSE, buffer |-> NoImage, exception |-> "KeyError",
          status_code |-> 0, opened |-> 0, closed |-> 0,
          rcParams |-> rc_params]

\* except Exception as e: raise HTTPException(status_code=500, detail=str(e))
RenderAllFails(chart) ==
    /\ render_status' = 500
    /\ render_body' = [detail |-> "Loi tao bieu do"]
    /\ render_pc' = "done"
    /\ zip_members' = <<>>
    /\ results' = <<>>
    /\ open_figures' = open_figures + chart.opened - chart.closed
    /\ rc_params' = chart.rcParams
    /\ UNCHANGED rendered

\* one turn of the loop of the zip form
RenderToZip ==
    /\ render_pc = "loop"
    /\ output_format = "zip"
    /\ rendered < Len(render_configs)
    /\ LET config == render_configs[rendered + 1]
           chart == RenderOne(config)
       IN  IF chart.ok
           THEN /\ zip_members' =
                       Append(zip_members,
                              [filename |-> MemberName(rendered + 1, config.title),
                               content |-> chart.buffer])
                /\ rendered' = rendered + 1
                /\ open_figures' = open_figures + chart.opened - chart.closed
                /\ rc_params' = chart.rcParams
                /\ UNCHANGED <<render_pc, results, render_status, render_body>>
           ELSE RenderAllFails(chart)
    /\ UNCHANGED <<render_configs, output_format, pipeline_vars, chart_vars, fence_vars>>

\* return StreamingResponse(zip_buffer, ...)
ReturnZip ==
    /\ render_pc = "loop"
    /\ output_format = "zip"
    /\ rendered = Len(render_configs)
    /\ render_status' = 200
    /\ render_body' = [archive |-> zip_members]
    /\ render_pc' = "done"
    /\ UNCHANGED <<render_configs, output_format, rendered, zip_members,
                   results, open_figures, rc_params, pipeline_vars, chart_vars, fence_vars>>

\* ListEntry without the chart_type
ListEntryWithoutType(config, chart) ==
    [title |-> config.title, image_base64 |-> Base64(chart.buffer)]

\* results.append({"title": ..., "chart_type": ..., "image_base64": ...})
ListEntry(config, chart) ==
    [title |-> config.title, chart_type |-> config.chart_type,
     image_base64 |-> Base64(chart.buffer)]

\* one turn of the loop of the individual form
RenderToList ==
    /\ render_pc = "loop"
    /\ output_format # "zip"
    /\ rendered < Len(render_configs)
    /\ LET config == render_configs[rendered + 1]
           chart == RenderOne(config)
       IN  IF chart.ok
           THEN /\ results' = Append(results, ListEntry(config, chart))
                /\ rendered' = rendered + 1
                /\ open_figures' = open_figures + chart.opened - chart.closed
                /\ rc_params' = chart.rcParams
                /\ UNCHANGED <<render_pc, zip_members, render_status,
                               render_body>>
           ELSE RenderAllFails(chart)
    /\ UNCHANGED <<render_configs, output_format, pipeline_vars, chart_vars, fence_vars>>

\* return {"success": True, "count": len(results), "charts": results}
ReturnList ==
    /\ render_pc = "loop"
    /\ output_format # "zip"
    /\ rendered = Len(render_configs)
    /\ render_status' = 200
    /\ render_body' = [success |-> TRUE, count |-> Len(results),
                       charts |-> results]
    /\ render_pc' = "done"
    /\ UNCHANGED <<render_configs, output_format, rendered, zip_members,
                   results, open_figures, rc_params, pipeline_vars, chart_vars, fence_vars>>

NextRender ==
    \/ RenderToZip
    \/ ReturnZip
    \/ RenderToList
    \/ ReturnList

SpecRender == InitRender /\ [][NextRender]_vars

Next ==
    \/ ProcessPdf
    \/ OcrImage
    \/ SkipCharts
    \/ ExtractForRequest
    \/ ExtractForRecommendations
    \/ Analyze
    \/ RespondWithoutAnalysis

Spec == Init /\ [][Next]_vars

(***************************************************************************)
(* The chart phase with doubles for the generator's two methods            *)
(***************************************************************************)
ReportPdf == [present |-> TRUE, pages |-> << <<"r">> >>]

InitGenerator ==
    /\ RenderIdle
    /\ ChartIdle
    /\ FenceIdle
    /\ NothingRun
    /\ patched = TRUE
    /\ pc = "ocr"
    /\ text_content \in TextContents
    /\ pdf_file = ReportPdf
    /\ image_files = <<>>
    /\ create_charts = TRUE
    /\ pdf_text = extract_text_from_pdf(pdf_file.pages)
    /\ combined_text = text_content \o PdfHeader \o pdf_text

NextGenerator ==
    \/ ExtractForRequest
    \/ ChartForRequest
    \/ ExtractForRecommendations
    \/ ChartForRecommendation
    \/ ReturnChartConfigs

SpecGenerator == InitGenerator /\ [][NextGenerator]_vars

\* the chart phase is synchronous code: a step that can be taken is taken
SpecGeneratorFair == SpecGenerator /\ WF_vars(NextGenerator)

(***************************************************************************)
(* full_pipeline from its first line to its response, with the same        *)
(* doubles for the generator's two methods                                 *)
(***************************************************************************)
InitPipelineDoubles ==
    /\ RenderIdle
    /\ ChartIdle
    /\ FenceIdle
    /\ NothingRun
    /\ patched = TRUE
    /\ pc = "pdf"
    /\ text_content \in TextContents
    /\ pdf_file \in PdfFiles
    /\ image_files \in ImageLists
    /\ create_charts \in BOOLEAN
    /\ pdf_text = <<>>
    /\ combined_text = text_content

NextPipelineDoubles ==
    \/ ProcessPdf
    \/ OcrImage
    \/ SkipCharts
    \/ ExtractForRequest
    \/ ChartForRequest
    \/ ExtractForRecommendations
    \/ ChartForRecommendation
    \/ ReturnChartConfigs
    \/ Analyze
    \/ RespondWithoutAnalysis

SpecPipelineDoubles == InitPipelineDoubles /\ [][NextPipelineDoubles]_vars

(***************************************************************************)
(* POST /api/chart/create and POST /api/chart/render, served one after the *)
(* other by one process                                                    *)
(***************************************************************************)
\* ChartRequest.style: the styles its description names, and a name that
\* is no style
Styles == {"default", "seaborn", "ggplot", "bmh", "no_such_style"}

Points == <<1, 2>>

\* chart_type and data of the requests
ChartInputs ==
    {[chart_type |-> "line", data |-> [x |-> Points, y |-> <<100, 120>>]],
     [chart_type |-> "line", data |-> [x |-> Points, y |-> <<100>>]],
     [chart_type |-> "line", data |-> [x |-> Points]],
     [chart_type |-> "line", data |-> EmptyDict],
     [chart_type |-> "bar", data |-> [x |-> Quarters, y |-> <<100, 120>>]],
     [chart_type |-> "bar", data |-> [x |-> Quarters, y |-> <<100>>]],
     [chart_type |-> "bar", data |-> [x |-> Quarters, y |-> <<100, 120, 90>>]],
     [chart_type |-> "pie", data |-> [labels |-> Quarters, values |-> <<60, 40>>]],
     [chart_type |-> "pie",
      data |-> [labels |-> Quarters, values |-> <<60, 40>>, explode |-> <<5>>]],
     [chart_type |-> "pie",
      data |-> [labels |-> Quarters, values |-> <<60, 40>>,
                explode |-> <<0, 10>>]],
     [chart_type |-> "pie",
      data |-> [labels |-> Quarters \o <<"Q3", "Q4">>,
                values |-> <<35, 25, 20, 20>>]],
     [chart_type |-> "pie", data |-> [labels |-> Quarters, values |-> <<60>>]],
     [chart_type |-> "pie", data |-> [labels |-> Quarters]],
     [chart_type |-> "scatter", data |-> [x |-> Points, y |-> <<100, 120>>]],
     [chart_type |-> "scatter",
      data |-> [x |-> Points, y |-> <<100, 120>>, sizes |-> <<50>>]],
     [chart_type |-> "scatter", data |-> [x |-> Points, y |-> <<100>>]],
     [chart_type |-> "scatter", data |-> [y |-> <<100, 120>>]],
     [chart_type |-> "heatmap", data |-> [matrix |-> << <<1, 2>>, <<3, 4>> >>]],
     [chart_type |-> "heatmap",
      data |-> [matrix |-> << <<1, 2>>, <<3, 4>> >>, xlabels |-> Quarters]],
     [chart_type |-> "heatmap", data |-> [matrix |-> << <<1, 2, 3>>, <<4, 5>> >>]],
     [chart_type |-> "heatmap", data |-> [matrix |-> << <<1, 2>>, <<3, 4, 5>> >>]],
     [chart_type |-> "heatmap", data |-> [matrix |-> <<>>]],
     [chart_type |-> "area", data |-> [x |-> Points, y |-> <<100, 120>>]],
     [chart_type |-> "area", data |-> [x |-> Points, y |-> <<100>>]],
     [chart_type |-> "area", data |-> [y |-> <<100, 120>>]],
     [chart_type |-> "radar", data |-> [x |-> Points, y |-> <<100, 120>>]],
     [chart_type |-> "Line", data |-> [x |-> Points, y |-> <<100, 120>>]]}

\* ChartRequest.xlabel and .ylabel; <<>> also stands for None (both falsy)
AxisLabels == {[xlabel |-> <<>>, ylabel |-> <<>>],
               [xlabel |-> <<"Q">>, ylabel |-> <<"V">>]}

\* the bodies of POST /api/chart/create
ChartRequests ==
    {[data |-> input.data, chart_type |-> input.chart_type, title |-> <<"T">>,
      xlabel |-> labels.xlabel, ylabel |-> labels.ylabel, style |-> style] :
        input \in ChartInputs, labels \in AxisLabels, style \in Styles}

InitChart ==
    /\ PipelineIdle
    /\ RenderIdle
    /\ ChartIdle
    /\ FenceIdle

\* what either endpoint answers for the outcome of its create_chart call:
\* StreamingResponse(buffer, media_type="image/png"), or, for any exception,
\* the HTTPException of create_chart among them,
\* raise HTTPException(status_code=500, detail=str(e))
ChartResponse(chart) ==
    IF chart.ok
    THEN [status_code |-> 200, image |-> chart.buffer]
    ELSE [status_code |-> 500, image |-> NoImage]

\* POST /api/chart/create
CreateChartEndpoint ==
    /\ \E request \in ChartRequests :
        LET chart == create_chart(request.data, request.chart_type,
                                  request.title, request.xlabel,
                                  request.ylabel, request.style, rc_params)
        IN  /\ chart_request' = request
            /\ chart_response' = ChartResponse(chart)
            /\ open_figures' = open_figures + chart.opened - chart.closed
            /\ rc_params' = chart.rcParams
    /\ UNCHANGED <<render_pc, render_configs, output_format, rendered,
                   zip_members, results, render_status, render_body,
                   pipeline_vars, fence_vars>>

\* POST /api/chart/render: chart_config["data"], ["chart_type"] and
\* ["title"] raise KeyError before create_chart is called
RenderChartFromConfig ==
    /\ \E chart_config \in RenderConfigs, style \in Styles :
        LET chart == IF HasRenderKeys(chart_config)
                     THEN create_chart(chart_config.data,
                                       chart_config.chart_type,
                                       chart_config.title,
                                       Get(chart_config, "xlabel", <<>>),
                                       Get(chart_config, "ylabel", <<>>),
                                       style, rc_params)
                     ELSE [ok |-> FALSE, buffer |-> NoImage,
                           exception |-> "KeyError", status_code |-> 0,
                           opened |-> 0, closed |-> 0, rcParams |-> rc_params]
        IN  /\ chart_request' = [chart_config |-> chart_config, style |-> style]
            /\ chart_response' = ChartResponse(chart)
            /\ open_figures' = open_figures + chart.opened - chart.closed
            /\ rc_params' = chart.rcParams
    /\ UNCHANGED <<render_pc, render_configs, output_format, rendered,
                   zip_members, results, render_status, render_body,
                   pipeline_vars, fence_vars>>

NextChart ==
    \/ CreateChartEndpoint
    \/ RenderChartFromConfig

SpecChart == InitChart /\ [][NextChart]_vars

(***************************************************************************)
(* The markdown-fence handling applied to a completion                     *)
(***************************************************************************)
\* the pieces payloads are made of: backquotes, the tag, whitespace, and
\* "D", the serialized document
Pieces ==
    {<<"BQ">>, <<"BQ", "BQ">>, Fence, JsonTag, <<" ">>, <<"\n">>, <<"D">>}

RECURSIVE Concat(_)
Concat(pieces) ==
    IF pieces = <<>> THEN <<>> ELSE Head(pieces) \o Concat(Tail(pieces))

Payloads ==
    {Concat(pieces) : pieces \in UNION {[1..n -> Pieces] : n \in 0..MaxPieces}}

InitFence ==
    /\ PipelineIdle
    /\ RenderIdle
    /\ ChartIdle
    /\ fence_pc = "completion"
    /\ payload \in Payloads
    /\ ai_response \in {payload, Fenced(payload)}
    /\ json_text = <<>>

\* json_text = ai_response.strip() ... json_text = json_text.strip()
StripMarkdown ==
    /\ fence_pc = "completion"
    /\ IF FenceRaises(ai_response)
       THEN fence_pc' = "raised" /\ UNCHANGED json_text
       ELSE fence_pc' = "stripped" /\ json_text' = StripFence(ai_response)
    /\ UNCHANGED <<payload, ai_response, pipeline_vars, render_vars,
                   chart_vars>>

NextFence == StripMarkdown

SpecFence == InitFence /\ [][NextFence]_vars

(***************************************************************************)
(* Properties                                                              *)
(***************************************************************************)
Last(seq) == seq[Len(seq)]

\* the chart phase of the request has run and has returned
ChartPhaseDone == pc \in {"analysis", "done"} /\ extraction.outcome # "none"

\* C1
FailingConfigs ==
    {k \in DOMAIN render_configs : ~RenderOne(render_configs[k]).ok}

ImagesInResponse ==
    IF "archive" \in DOMAIN render_body THEN Len(render_body.archive)
    ELSE IF "charts" \in DOMAIN render_body THEN Len(render_body.charts)
    ELSE 0

\* C1: a batch of N chart configs of which K fail to render completes and
\* yields N-K images, in the zip form and in the individual form
C1_BatchToleratesFailure ==
    render_pc = "done" =>
        /\ render_status = 200
        /\ ImagesInResponse = Len(render_configs) - Cardinality(FailingConfigs)

\* C2
CompleteRec(rec) == DOMAIN rec = DOMAIN Rec(1)

\* the record with the k-th smallest priority
NthByPriority(recs, k) ==
    recs[CHOOSE a \in DOMAIN recs :
            Cardinality({b \in DOMAIN recs :
                           recs[b].priority < recs[a].priority}) = k - 1]

RequestsByPriority(recs, num_charts) ==
    [k \in 1..Len(FirstRecs(recs, num_charts)) |->
        RecRequest(NthByPriority(recs, k))]

RequestsMade == [k \in DOMAIN synth_calls |-> synth_calls[k].chart_request]

\* C2: without a chart request, when the loop over the recommendations ends
\* generate_chart_config has been called once for each of the num_charts
\* recommendations of smallest priority, in ascending priority order
C2_AscendingPriority ==
    (/\ pc = "rec_loop"
     /\ i = Len(FirstRecs(recommended_charts, NumCharts))
     /\ \A k \in DOMAIN recommended_charts : CompleteRec(recommended_charts[k]))
    => RequestsMade = RequestsByPriority(recommended_charts, NumCharts)

\* C3
C3_Step ==
    pc = "rec_loop" =>
        LET recs == FirstRecs(recommended_charts, NumCharts)
        IN  IF i < Len(recs)
            THEN "title" \in DOMAIN recs[i + 1] =>
                   /\ pc' = "rec_loop"
                   /\ i' = i + 1
                   /\ recommended_charts' = recommended_charts
                   /\ Len(chart_configs') >= Len(chart_configs)
                   /\ SubSeq(chart_configs', 1, Len(chart_configs)) = chart_configs
                   /\ (/\ Len(synth_calls') > Len(synth_calls)
                       /\ IsDict(Last(synth_calls').config))
                      => chart_configs' =
                             Append(chart_configs,
                                    Annotated(Last(synth_calls').config,
                                              recs[i + 1], i))
            ELSE /\ pc' = "analysis"
                 /\ chart_result' = [chart_configs |-> chart_configs]

\* C3: in the loop over the recommendations, a turn on a recommendation that
\* has a title never ends the loop, whether its chart config is produced or
\* not: the loop goes on to the next recommendation, keeps the configs
\* produced so far and appends the one this turn produced; when the loop
\* ends, the list of all of them is returned, without an error
C3_FailureConfined == [][C3_Step]_vars

C3_Witness ==
    /\ pc = "analysis"
    /\ "error" \notin DOMAIN chart_result
    /\ Len(synth_calls) >= 3
    /\ IsDict(synth_calls[1].config)
    /\ ~IsDict(synth_calls[2].config)
    /\ IsDict(synth_calls[3].config)
    /\ Len(chart_result.chart_configs) = 2

\* C4
\* the generate_chart_config calls that raised
SpecFailures == {k \in DOMAIN synth_calls : synth_calls[k].config = None}

FailureRecorded(result) ==
    DOMAIN result \cap {"error", "errors", "failed_count", "failures"} # {}

\* C4: when the chart phase has returned and a call of generate_chart_config
\* raised, the result handed back holds a record of the failure
C4_NoFailureDiscarded ==
    (ChartPhaseDone /\ SpecFailures # {}) => FailureRecorded(chart_result)

\* C5
ExtractionFailed ==
    \/ extraction.outcome \in {"raised", "not_dict"}
    \/ extraction.outcome = "no_data" /\ ~ChartIntent(text_content)

\* C5: when extraction fails, integrate_smart_chart_to_api returns no chart
\* config and the error text, and the charts section of the response carries
\* that error text
C5_ExtractionFailureReported ==
    (ChartPhaseDone /\ ExtractionFailed) =>
        /\ "error" \in DOMAIN chart_result
        /\ chart_result.chart_configs = <<>>
        /\ \/ Get(charts, "error", "") = chart_result.error
           \/ Get(charts, "message", "") = chart_result.error

\* C6: once the chart phase has run, whatever it returned, a request whose
\* combined text is not blank ends only after the analysis call was made;
\* the response is 200 and holds the result of the analysis exactly when that
\* call returned
C6_AnalysisSurvivesCharts ==
    (pc = "done" /\ extraction.outcome # "none" /\ Strip(combined_text) # <<>>)
    => /\ analysis_calls = 1
       /\ status = 200 <=> "result" \in DOMAIN analysis
       /\ status \in {200, 500}

C6_Witness ==
    /\ pc = "done"
    /\ status = 200
    /\ "error" \in DOMAIN chart_result
    /\ "result" \in DOMAIN analysis

\* C7: an extraction whose value has an empty extracted_data, or none, makes
\* extraction fail: generate_chart_config is not called and the chart phase
\* returns an error, on both branches
C7_ExtractionFailsWithoutData ==
    extraction.outcome \in {"not_dict", "no_data"} =>
        /\ synth_calls = <<>>
        /\ pc \in {"analysis", "done"} => "error" \in DOMAIN chart_result

\* C9
ClaimKeywords ==
    {<<"b", "i", "e^", "u", " ", "dd", "o^">>, <<"c", "h", "a", "r", "t">>,
     <<"v", "e~">>, <<"g", "r", "a", "p", "h">>}

HasKeyword(request) ==
    \E keyword \in ClaimKeywords : Contains(Lower(request), keyword)

\* C9: a request with a chart keyword, in any case, gives exactly
\* one extraction call, exactly one generate_chart_config call with the
\* extracted dataset and the request, and exactly one chart config
C9_ExactlyOneChart ==
    (HasKeyword(text_content) /\ ChartPhaseDone) =>
        /\ extract_calls = 1
        /\ Len(synth_calls) = 1
        /\ synth_calls[1].extracted_data = extraction.extracted_data
        /\ synth_calls[1].chart_request = text_content
        /\ Len(chart_result.chart_configs) = 1

\* C11: when the extraction call returned data, the result that
\* integrate_smart_chart_to_api hands back holds that dataset, the
\* recommendations and the chart configs, on both branches and also when a
\* call of generate_chart_config raised
C11_ResultCarriesDataset ==
    (ChartPhaseDone /\ extraction.outcome = "data") =>
        /\ Get(chart_result, "extracted_data", None) = extraction.extracted_data
        /\ "recommended_charts" \in DOMAIN chart_result
        /\ "chart_configs" \in DOMAIN chart_result

\* C12: after any sequence of create_chart calls, with any chart_type, data
\* and style, whether each returned or raised, pyplot holds no open figure
C12_FigureScoped == open_figures = 0

\* a call that raised out of the try block, after plt.subplots, has ended
C12_Witness ==
    /\ "chart_type" \in DOMAIN chart_request
    /\ chart_request.chart_type = "radar"
    /\ chart_request.style = "ggplot"
    /\ chart_response.status_code = 500
    /\ open_figures = 0

\* C13
\* what create_chart returns for the request in a process that has rendered
\* nothing yet
FirstRender(request) ==
    create_chart(request.data, request.chart_type, request.title,
                 request.xlabel, request.ylabel, request.style,
                 DefaultRcParams)

\* C13: the image POST /api/chart/create answers for a request is the image
\* of that request as the first render of a process, whatever calls, with
\* whatever styles, the process served before
C13_RenderStateless ==
    ("chart_type" \in DOMAIN chart_request /\ chart_response.status_code = 200)
    => chart_response.image = FirstRender(chart_request).buffer

\* C14
\* the data keys the claim calls required for a chart type
RequiredKeys(chart_type) ==
    CASE chart_type \in {"line", "bar", "scatter", "area"} -> {"x", "y"}
      [] chart_type = "pie" -> {"labels", "values"}
      [] chart_type = "heatmap" -> {"matrix"}
      [] OTHER -> {}

\* C14: a request whose data lacks a key its chart_type requires is answered
\* with an error and never with an image
C14_MissingKeyFails ==
    ("chart_type" \in DOMAIN chart_request
     /\ ~(RequiredKeys(chart_request.chart_type)
              \subseteq DOMAIN chart_request.data))
    => (chart_response.status_code # 200 /\ chart_response.image = NoImage)

\* C15
SixKinds == {"line", "bar", "pie", "scatter", "heatmap", "area"}

\* C15: a request whose chart_type is none of line, bar, pie, scatter,
\* heatmap, area is answered with an error and no image
C15_UnsupportedTypeFails ==
    ("chart_type" \in DOMAIN chart_request
     /\ chart_request.chart_type \notin SixKinds)
    => (chart_response.status_code # 200 /\ chart_response.image = NoImage)

C15_Witness ==
    /\ "chart_type" \in DOMAIN chart_request
    /\ chart_request.chart_type = "Line"
    /\ chart_request.style = "seaborn"
    /\ chart_response.status_code = 500
    /\ chart_response.image = NoImage

\* C16
HeatmapRequest ==
    /\ "chart_type" \in DOMAIN chart_request
    /\ chart_request.chart_type = "heatmap"
    /\ "matrix" \in DOMAIN chart_request.data

EqualRows(matrix) == \A a, b \in DOMAIN matrix : Len(matrix[a]) = Len(matrix[b])

InstalledStyles == DOMAIN StyleLibrary \cup {"default"}

\* C16: a heatmap request is answered with an image if all rows of its
\* matrix have one length, and with an error if two rows differ in length
C16_HeatmapRectangular ==
    HeatmapRequest =>
        (chart_response.status_code = 200
            <=> EqualRows(chart_request.data.matrix))

\* C16 as the code has it: the above for a matrix with at least one row and
\* one column, rendered with an installed style; a matrix with two rows of
\* different length is answered with an error under any style
C16_HeatmapRectangularNonEmpty ==
    HeatmapRequest =>
        LET matrix == chart_request.data.matrix
        IN  /\ (matrix # <<>> /\ matrix[1] # <<>>
                 /\ chart_request.style \in InstalledStyles)
                => (chart_response.status_code = 200 <=> EqualRows(matrix))
            /\ ~EqualRows(matrix)
                => (chart_response.status_code # 200
                    /\ chart_response.image = NoImage)

\* the odd row is longer than the first row
C16_Witness ==
    /\ HeatmapRequest
    /\ chart_request.data.matrix = << <<1, 2>>, <<3, 4, 5>> >>
    /\ chart_request.style = "bmh"
    /\ chart_response.status_code = 500

\* C17
\* the request names one of the six chart types and its data holds the keys
\* that type requires
SchemaRequest ==
    /\ "chart_type" \in DOMAIN chart_request
    /\ chart_request.chart_type \in SixKinds
    /\ RequiredKeys(chart_request.chart_type) \subseteq DOMAIN chart_request.data

LengthsFit(chart_type, data) ==
    CASE chart_type \in {"line", "area"} -> Len(data.x) = Len(data.y)
      [] chart_type = "bar" ->
            Len(data.x) = Len(data.y) \/ Len(data.x) = 1 \/ Len(data.y) = 1
      [] chart_type = "pie" ->
            /\ Len(data.labels) = Len(data.values)
            /\ "explode" \in DOMAIN data => Len(data.explode) = Len(data.values)
      [] chart_type = "scatter" ->
            /\ Len(data.x) = Len(data.y)
            /\ "sizes" \in DOMAIN data => Len(data.sizes) \in {1, Len(data.x)}
      [] chart_type = "heatmap" ->
            /\ data.matrix # <<>>
            /\ data.matrix[1] # <<>>
            /\ EqualRows(data.matrix)

Underscored(title) ==
    [k \in DOMAIN title |-> IF title[k] = " " THEN "_" ELSE title[k]]

\* C18: in the zip form the k-th member written is the image of the k-th
\* config of the request and is named k, an underscore, the config's title
\* with every space replaced by an underscore, and ".png"; the archive sent
\* holds the members in that order
C18_ZipMemberNames ==
    output_format = "zip" =>
        /\ \A k \in DOMAIN zip_members :
                /\ zip_members[k].filename =
                       <<Digit(k), "_">>
                           \o Underscored(render_configs[k].title)
                           \o <<".", "p", "n", "g">>
                /\ zip_members[k].content.title = render_configs[k].title
                /\ zip_members[k].content.chart_type =
                       render_configs[k].chart_type
        /\ render_status = 200 =>
                /\ render_body.archive = zip_members
                /\ Len(zip_members) = Len(render_configs)

\* an archive was sent whose second member has a title with a space
C18_Witness ==
    /\ output_format = "zip"
    /\ render_status = 200
    /\ Len(render_body.archive) = 3
    /\ render_body.archive[2].filename =
           <<"2", "_", "A", "_", "B", ".", "p", "n", "g">>
    /\ render_body.archive[1].content.chart_type = "pie"

\* C19: in the individual form the k-th entry of the list holds exactly
\* title, chart_type and image_base64, the first two those of the k-th
\* config of the request and the third the encoded image of that config;
\* the response sent holds the list, one entry per config, and a count equal
\* to the length of the list
C19_IndividualEntries ==
    output_format # "zip" =>
        /\ \A k \in DOMAIN results :
                /\ DOMAIN results[k] = {"title", "chart_type", "image_base64"}
                /\ results[k].title = render_configs[k].title
                /\ results[k].chart_type = render_configs[k].chart_type
                /\ results[k].image_base64.base64.png
                /\ results[k].image_base64.base64.title = render_configs[k].title
        /\ render_status = 200 =>
                /\ render_body.charts = results
                /\ render_body.count = Len(render_body.charts)
                /\ Len(render_body.charts) = Len(render_configs)

\* a list of three charts was sent
C19_Witness ==
    /\ output_format = "individual"
    /\ render_status = 200
    /\ render_body.count = 3
    /\ render_body.charts[1].chart_type = "heatmap"
    /\ render_body.charts[2].chart_type = "bar"
    /\ render_body.charts[3].chart_type = "pie"

\* C20: for a payload that holds no triple backquote, the fence handling
\* gives for the payload between a json fence and a closing fence, each on
\* a line of its own, the text it gives for the payload alone
C20_FencedEqualsBare ==
    (/\ fence_pc = "stripped"
     /\ ai_response = Fenced(payload)
     /\ ~Contains(payload, Fence))
    => json_text = StripFence(payload)

\* the fenced payload starts with the letters of the tag
C20_Witness ==
    /\ fence_pc = "stripped"
    /\ payload = JsonTag \o <<"\n", "D">>
    /\ ai_response = Fenced(payload)
    /\ json_text = payload

\* C21: the fence handling raises for no completion, and for a completion
\* that, once stripped, does not start with a triple backquote it gives
\* the stripped completion
C21_TotalAndPassThrough ==
    /\ fence_pc # "raised"
    /\ (fence_pc = "stripped" /\ ~StartsWith(Strip(ai_response), Fence))
        => json_text = Strip(ai_response)

\* an unfenced completion with the tag letters first and a fence inside
C21_Witness ==
    /\ fence_pc = "stripped"
    /\ ai_response = <<" ">> \o JsonTag \o Fence
    /\ json_text = JsonTag \o Fence

\* C22
\* the generate_chart_config calls that returned a mapping
Successes == {k \in DOMAIN synth_calls : IsDict(synth_calls[k].config)}

NthSuccess(n) ==
    CHOOSE k \in Successes : Cardinality({m \in Successes : m < k}) = n - 1

\* the recommendation a call was made for: the one whose type and title
\* the call's request names
Origin(call) ==
    CHOOSE k \in DOMAIN recommended_charts :
        /\ {"title", "type"} \subseteq DOMAIN recommended_charts[k]
        /\ RecRequest(recommended_charts[k]) = call.chart_request

AnnotatedFromOrigin ==
    pc = "rec_loop" =>
        /\ Len(chart_configs) = Cardinality(Successes)
        /\ \A n \in DOMAIN chart_configs :
            LET call == synth_calls[NthSuccess(n)]
                chart_rec == recommended_charts[Origin(call)]
                chart_config == chart_configs[n]
            IN  /\ Without(chart_config, {"priority", "description"})
                       = Without(call.config, {"priority", "description"})
                /\ {"priority", "description"} \subseteq DOMAIN chart_config
                /\ "priority" \in DOMAIN chart_rec
                       => chart_config.priority = chart_rec.priority
                /\ "description" \in DOMAIN chart_rec
                       => chart_config.description = chart_rec.description

C22_Step ==
    /\ AnnotatedFromOrigin'
    /\ (pc = "rec_loop" /\ pc' # "rec_loop"
         /\ "error" \notin DOMAIN chart_result')
        => chart_result'.chart_configs = chart_configs

\* C22: in the loop over the recommendations the n-th config of the list
\* is the value of the n-th successful generate_chart_config call with the
\* priority and the description of the recommendation that call was made
\* for, also when calls for earlier recommendations failed, and the list is
\* returned as it is
C22_AnnotatedFromOrigin == [][C22_Step]_vars

\* the second of three calls failed and the third config carries a priority
\* that is not its position
C22_Witness ==
    /\ pc = "rec_loop"
    /\ Len(synth_calls) = 3
    /\ synth_calls[2].config = None
    /\ Len(chart_configs) = 2
    /\ chart_configs[2].priority = recommended_charts[3].priority
    /\ chart_configs[2].priority # 3
    /\ chart_configs[2].description = recommended_charts[3].description

\* C23
PieRendered ==
    /\ "chart_type" \in DOMAIN chart_request
    /\ chart_request.chart_type = "pie"
    /\ chart_response.status_code = 200

\* C23: the image of a pie request without an explode key is drawn with one
\* explode value of 0.05 (5 hundredths) for each label, and the image of a
\* pie request with an explode key with that explode
C23_PieExplode ==
    PieRendered =>
        LET data == chart_request.data
            explode == chart_response.image.explode
        IN  IF "explode" \in DOMAIN data
            THEN explode = data.explode
            ELSE /\ Len(explode) = Len(data.labels)
                 /\ \A k \in DOMAIN explode : explode[k] = 5

\* four labels, no explode
C23_Witness ==
    /\ PieRendered
    /\ Len(chart_request.data.labels) = 4
    /\ "explode" \notin DOMAIN chart_request.data
    /\ chart_response.image.explode = <<5, 5, 5, 5>>

\* C24: in the loop of generate_multiple_charts every recommendation gone
\* through has either its config in the list or an error reported for it,
\* never both: the configs in the list and the errors printed add up to the
\* recommendations gone through
C24_OneOutcomePerRec ==
    pc = "rec_loop" => Len(chart_configs) + printed_errors = i

\* C25
C25_Step ==
    (/\ pc = "rec_loop"
     /\ i < Len(FirstRecs(recommended_charts, NumCharts))
     /\ ~({"title", "type"} \subseteq DOMAIN recommended_charts[i + 1]))
    => /\ pc' = "rec_loop"
       /\ i' = i + 1
       /\ chart_configs' = chart_configs
       /\ recommended_charts' = recommended_charts

\* C25: the turn of the loop for a recommendation without a title or
\* without a type keeps the configs made so far and goes on to the next
\* recommendation
C25_MalformedRecConfined == [][C25_Step]_vars

\* C26
IsList(v) == DOMAIN v = 1..Len(v)

\* C26: whatever the extraction and the generate_chart_config calls did,
\* integrate_smart_chart_to_api has returned a mapping with a list under
\* chart_configs, an empty one whenever the mapping has an error, and no
\* exception has reached full_pipeline
C26_IntegrateNeverRaises ==
    ChartPhaseDone =>
        /\ IsDict(chart_result)
        /\ "chart_configs" \in DOMAIN chart_result
        /\ IsList(chart_result.chart_configs)
        /\ "error" \in DOMAIN chart_result => chart_result.chart_configs = <<>>
        /\ "error" \notin DOMAIN charts

\* the chart phase failed after a config had been made
C26_Witness ==
    /\ ChartPhaseDone
    /\ "error" \in DOMAIN chart_result
    /\ Len(synth_calls) = 1
    /\ "title" \in DOMAIN synth_calls[1].config
    /\ chart_result.chart_configs = <<>>
    /\ ~charts.available

\* C27
\* the calls are made in order: at most one extraction call, made while no
\* generate_chart_config call has been made, and generate_chart_config
\* calls one at a time after it
CallsInOrder ==
    /\ extract_calls' <= 1
    /\ extract_calls' # extract_calls =>
            (synth_calls = <<>> /\ synth_calls' = <<>>)
    /\ synth_calls' # synth_calls =>
            /\ extract_calls = 1
            /\ extract_calls' = 1
            /\ Len(synth_calls') = Len(synth_calls) + 1
            /\ SubSeq(synth_calls', 1, Len(synth_calls)) = synth_calls
    /\ ChartPhaseDone' => extract_calls' = 1

C27_Step ==
    /\ CallsInOrder
    /\ synth_calls' # synth_calls =>
            Len(synth_calls') <= Min({NumCharts, Len(recommended_charts)})

C27_StepByBranch ==
    /\ CallsInOrder
    /\ synth_calls' # synth_calls =>
            /\ Len(synth_calls') <= NumCharts
            /\ Len(synth_calls') <=
                   IF pc = "request_chart" THEN 1
                   ELSE Min({NumCharts, Len(recommended_charts)})

\* C27: one chart phase makes the extraction call exactly once and before
\* any generate_chart_config call, makes those calls one at a time, at most
\* min(num_charts, number of recommendations) of them, and ends
C27_CallsOrderedAndBounded == [][C27_Step]_vars /\ <>ChartPhaseDone

\* C27 as the code has it: the number of generate_chart_config calls is at
\* most min(num_charts, number of recommendations) on the recommendation
\* branch and one on the branch of a chart request, whatever the number of
\* recommendations; it never exceeds num_charts
C27_CallsOrderedAndBoundedByBranch ==
    [][C27_StepByBranch]_vars /\ <>ChartPhaseDone

\* four recommendations, three calls, the loop over
C27_Witness ==
    /\ pc = "rec_loop"
    /\ Len(recommended_charts) = 4
    /\ i = NumCharts
    /\ Len(synth_calls) = NumCharts
    /\ extract_calls = 1

\* C28
\* the position in the recommendation list of the recommendation the n-th
\* config of the list was made for
OriginOfConfig(n) == Origin(synth_calls[NthSuccess(n)])

OrderPreserved ==
    pc = "rec_loop" =>
        /\ Len(chart_configs) <= Min({NumCharts, Len(recommended_charts)})
        /\ Len(chart_configs) = Cardinality(Successes)
        /\ \A n \in DOMAIN chart_configs :
                /\ OriginOfConfig(n) <= NumCharts
                /\ chart_configs[n].description =
                       Get(recommended_charts[OriginOfConfig(n)],
                           "description", <<>>)
        /\ \A m, n \in DOMAIN chart_configs :
                m < n => OriginOfConfig(m) < OriginOfConfig(n)

C28_Step ==
    /\ OrderPreserved'
    /\ (pc = "rec_loop" /\ pc' # "rec_loop"
         /\ "error" \notin DOMAIN chart_result')
        => /\ chart_result'.chart_configs = chart_configs
           /\ Len(chart_result'.chart_configs)
                  <= Min({NumCharts, Len(recommended_charts)})

\* C28: the list generate_multiple_charts builds and returns holds at most
\* min(num_charts, number of recommendations) configs, each made for one of
\* the first num_charts recommendations, in the order of the
\* recommendations they were made for
C28_OrderPreserved == [][C28_Step]_vars

\* of four recommendations the first failed, the second and third gave the
\* two configs of the list
C28_Witness ==
    /\ pc = "rec_loop"
    /\ Len(recommended_charts) = 4
    /\ i = NumCharts
    /\ synth_calls[1].config = None
    /\ Len(chart_configs) = 2
    /\ OriginOfConfig(1) = 2
    /\ OriginOfConfig(2) = 3

(***************************************************************************)
(* C29: in full_pipeline the generator is called only when create_charts   *)
(* is true and the text extracted from the PDF is not empty (a request     *)
(* with text_content or images alone makes no extraction call), and the    *)
(* response's statistics.charts_created is the number of chart configs in  *)
(* the response's charts section: 0 when create_charts is false, when the  *)
(* chart phase did not run, or when it gave no configs.                    *)
(***************************************************************************)
ChartPhaseRan == extract_calls > 0 \/ chart_result # EmptyDict

ConfigsInResponse == Get(charts, "configs", <<>>)

C29_ChartsCreated ==
    /\ ChartPhaseRan => create_charts /\ pdf_text # <<>>
    /\ ~ChartPhaseRan => synth_calls = <<>> /\ charts = EmptyDict
    /\ status = 200 =>
            /\ statistics.charts_created = Len(ConfigsInResponse)
            /\ (~create_charts \/ ~ChartPhaseRan \/ ConfigsInResponse = <<>>)
               => statistics.charts_created = 0

C29_Witness ==
    /\ status = 200
    /\ create_charts
    /\ image_files # <<>>
    /\ ChartPhaseRan
    /\ Len(ConfigsInResponse) = 2
    /\ statistics.charts_created = 2

(***************************************************************************)
(* C30: when the create_chart call of a request to /api/chart/create or    *)
(* /api/chart/render raises its HTTPException with status 400, the client  *)
(* is answered with status 400.                                            *)
(***************************************************************************)
\* the status of the exception raised by create_chart for the request
\* answered last, 0 when it raised none or was not called
RaisedStatus ==
    IF "chart_type" \in DOMAIN chart_request
    THEN create_chart(chart_request.data, chart_request.chart_type,
                      chart_request.title, chart_request.xlabel,
                      chart_request.ylabel, chart_request.style,
                      rc_params).status_code
    ELSE IF "chart_config" \in DOMAIN chart_request
            /\ HasRenderKeys(chart_request.chart_config)
    THEN create_chart(chart_request.chart_config.data,
                      chart_request.chart_config.chart_type,
                      chart_request.chart_config.title,
                      Get(chart_request.chart_config, "xlabel", <<>>),
                      Get(chart_request.chart_config, "ylabel", <<>>),
                      chart_request.style, rc_params).status_code
    ELSE 0

C30_BadRequestStays400 ==
    RaisedStatus = 400 => chart_response.status_code = 400

====
